---- MODULE Spec2Model ----
(***************************************************************************)
(* Model of src/app.py: the SQLite store (tables conversations and turns), *)
(* the blob directory tree under STORAGE_DIR, the Streamlit session state  *)
(* of each browser session, and the handlers of the upload and history     *)
(* pages.  Every handler that writes the store is a sequence of steps, one *)
(* per committed SQL statement or file-system operation, so that the       *)
(* states between two commits (and the states left by an exception between *)
(* them) are states of the model.                                          *)
(***************************************************************************)
EXTENDS Integers, Sequences, FiniteSets, TLC

VARIABLES
    conversations,   \* rows of table conversations (app.py:50-63)
    turns,           \* rows of table turns (app.py:76-88)
    dirs,            \* conversation directories that exist under STORAGE_DIR
    files,           \* function: path of a file under STORAGE_DIR -> its bytes
    session,         \* st.session_state of each browser session (app.py:939-952)
    uploaded_file,   \* value of the st.file_uploader widget of each session
    run,             \* the script run in flight in each session: position and locals
    alert,           \* what the last script run of a session reported to its user
    clock,           \* wall clock read by datetime.now()
    uuid_count,      \* number of uuid.uuid4() values drawn so far
    deleted,         \* history: <<id, fingerprint>> of every conversation row deleted
    faults           \* history: number of writes that raised so far

vars == <<conversations, turns, dirs, files, session, uploaded_file, run, alert,
          clock, uuid_count, deleted, faults>>

---------------------------------------------------------------------------
(* Bounds of the model *)

\* uuid.uuid4() is drawn at most MaxUuid times (one per conversation, one per turn).
MaxUuid == 4

\* At most MaxFaults writes raise an exception of the environment (disk full,
\* database locked) in one behaviour.
MaxFaults == 1

\* The wall clock takes the values 0..MaxClock.
MaxClock == 1

\* len(audio) in milliseconds of every decoded upload.
AudioLenMs == 3

Sessions == {1, 2}

\* Python's None and a present value.
None == <<>>
Some(x) == <<x>>
Val(o) == o[1]

Max(a, b) == IF a >= b THEN a ELSE b
Min(a, b) == IF a <= b THEN a ELSE b

\* Files the user can pick in the uploader: name (stem, extension) and bytes.
\* The same bytes are offered under two filenames.
Uploads ==
    { [stem |-> "x", ext |-> "wav", bytes |-> "pcm1"],
      [stem |-> "y", ext |-> "wav", bytes |-> "pcm1"],
      [stem |-> "x", ext |-> "wav", bytes |-> "pcm2"] }

\* Values of the "Expected Speakers" number input (min 2, max 10).
SpeakerCounts == {2}

Utt(sp, tx, s, e) == [speaker |-> sp, text |-> tx, start |-> s, end |-> e]

\* Utterance lists the transcription service returns in the main specification:
\* two ordinary utterances; a first utterance of zero length followed by one
\* that ends beyond the audio; no utterance; only an utterance that is
\* discarded.
TranscriptSamples ==
    { << Utt("A", "t1", 0, 2), Utt("B", "t2", 2, AudioLenMs) >>,
      << Utt("A", "t1", 1, 1), Utt("B", "t2", 1, AudioLenMs + 1) >>,
      << >>,
      << Utt("A", "t1", 2, 2) >> }

---------------------------------------------------------------------------
(* Pure functions of app.py *)

\* hashlib.sha256(audio_bytes).hexdigest(): a digest that depends on the bytes
\* alone and differs for different bytes.
get_audio_fingerprint(audio_bytes) == <<"sha256", audio_bytes>>

\* base64.b64encode(..).decode('utf-8') and base64.b64decode
b64encode(bytes) == <<"b64", bytes>>
b64decode(text) == text[2]

\* str.lower() on the speaker labels
Lower(speaker) ==
    CASE speaker = "A" -> "a"
      [] speaker = "B" -> "b"
      [] OTHER -> speaker

\* x / 1000 : milliseconds to (fractional) seconds, kept as an exact fraction
Div1000(ms) == <<ms, 1000>>

\* audio[start_ms:end_ms] exported to audio_format (pydub, opaque codec)
ExportSegment(audio_bytes, start_ms, end_ms, audio_format) ==
    [src |-> audio_bytes, from |-> start_ms, to |-> end_ms, fmt |-> audio_format]

\* Mutant: the offsets of the utterance are stored as the service gave them
TurnOf_Unclamped(idx, utterance, audio_bytes, audio_len, audio_format) ==
    [ number |-> idx,
      speaker |-> utterance.speaker,
      text |-> utterance.text,
      start |-> Div1000(utterance.start),
      end |-> Div1000(utterance.end),
      start_ms |-> utterance.start,
      end_ms |-> utterance.end,
      audio_b64 |-> b64encode(ExportSegment(audio_bytes, utterance.start,
                                            utterance.end, audio_format)),
      audio_path |-> None ]

\* One dict appended by process_audio for the utterance at enumerate index idx
TurnOf(idx, utterance, audio_bytes, audio_len, audio_format) ==
    LET start_ms == Max(0, utterance.start)
        end_ms == Min(audio_len, utterance.end)
    IN [ number |-> idx,
         speaker |-> utterance.speaker,
         text |-> utterance.text,
         start |-> Div1000(utterance.start),
         end |-> Div1000(utterance.end),
         start_ms |-> start_ms,
         end_ms |-> end_ms,
         audio_b64 |-> b64encode(ExportSegment(audio_bytes, start_ms, end_ms,
                                               audio_format)),
         audio_path |-> None ]

\* The loop of process_audio over enumerate(transcript.utterances, 1), from idx on
RECURSIVE ExtractTurns(_, _, _, _, _)
ExtractTurns(idx, utterances, audio_bytes, audio_len, audio_format) ==
    IF idx > Len(utterances) THEN << >>
    ELSE LET u == utterances[idx]
             rest == ExtractTurns(idx + 1, utterances, audio_bytes, audio_len,
                                  audio_format)
         IN IF Min(audio_len, u.end) <= Max(0, u.start)
            THEN rest
            ELSE << TurnOf(idx, u, audio_bytes, audio_len, audio_format) >> \o rest

\* Mutant: when slicing raises, the turns extracted so far are returned
process_audio_KeepsPartial(transcript, audio_bytes, audio_len, audio_format) ==
    IF transcript.status = "error" THEN None
    ELSE Some(ExtractTurns(1,
                SubSeq(transcript.utterances, 1,
                       IF transcript.fail_at # 0 THEN transcript.fail_at - 1
                       ELSE Len(transcript.utterances)),
                audio_bytes, audio_len, audio_format))

\* process_audio: transcript is what the service and the codec do in this call:
\* status "error" (transcript.status == error), or status "completed" with the
\* utterances and fail_at, the index of the utterance whose slicing/encoding
\* raises (0: none raises).  Returns None or the list of turns.
process_audio(transcript, audio_bytes, audio_len, audio_format) ==
    IF transcript.status = "error" THEN None
    ELSE IF transcript.fail_at # 0 THEN None
    ELSE Some(ExtractTurns(1, transcript.utterances, audio_bytes, audio_len,
                           audio_format))

\* Whether process_audio reports "Error: ..." to the user (st.error) in this call
process_audio_reports_error(transcript) ==
    transcript.status = "error" \/ transcript.fail_at # 0

\* Outcomes of one call of the transcription service and of the codec
Transcripts ==
    { [status |-> "error", utterances |-> << >>, fail_at |-> 0] }
    \cup { [status |-> "completed", utterances |-> u, fail_at |-> k] :
             u \in TranscriptSamples, k \in {0} }
    \cup { [status |-> "completed", utterances |-> u, fail_at |-> Len(u)] :
             u \in { v \in TranscriptSamples :
                        /\ Len(v) = 2
                        /\ Min(AudioLenMs, v[2].end) > Max(0, v[2].start) } }

---------------------------------------------------------------------------
(* The relational store *)

\* find_existing_conversation: the columns id, filename, processed_at, turns,
\* duration of the row with this fingerprint, or None
find_existing_conversation(fingerprint) ==
    LET found == { c \in conversations : c.fingerprint = fingerprint }
    IN IF found = {} THEN None
       ELSE LET c == CHOOSE c \in found : TRUE
            IN Some([ id |-> c.id, filename |-> c.filename,
                      processed_at |-> c.processed_at, turns |-> c.turns,
                      duration |-> c.duration ])

\* Mutant: the table is created without UNIQUE on fingerprint
ConstraintViolation_NoUnique(conv_id, fingerprint) ==
    \E c \in conversations : c.id = conv_id

\* Mutant: a deleted conversation leaves a tombstone that still blocks its fingerprint
ConstraintViolation_Tombstone(conv_id, fingerprint) ==
    \/ \E c \in conversations : c.id = conv_id \/ c.fingerprint = fingerprint
    \/ \E d \in deleted : d[2] = fingerprint

\* The constraints of table conversations: id TEXT PRIMARY KEY, fingerprint TEXT UNIQUE
ConstraintViolation(conv_id, fingerprint) ==
    \E c \in conversations : c.id = conv_id \/ c.fingerprint = fingerprint

\* save_conversation: the INSERT; raises sqlite3.IntegrityError when a constraint
\* of the table is violated, and then inserts nothing
save_conversation(conv_id, fingerprint, filename, audio_format, duration, speakers, turns_count, storage_path) ==
    IF ConstraintViolation(conv_id, fingerprint)
    THEN [raised |-> "IntegrityError", table |-> conversations]
    ELSE [raised |-> "none",
          table |-> conversations \cup
            { [ id |-> conv_id, fingerprint |-> fingerprint, filename |-> filename,
                format |-> audio_format, duration |-> duration,
                speakers |-> speakers, turns |-> turns_count,
                processed_at |-> clock, storage_path |-> storage_path,
                last_viewed |-> clock ] }]

\* Mutant: the UPDATE has no WHERE clause
update_last_viewed_AllRows(conv_id) ==
    { [c EXCEPT !.last_viewed = clock] : c \in conversations }

\* update_last_viewed: UPDATE conversations SET last_viewed = now WHERE id = conv_id
update_last_viewed(conv_id) ==
    { IF c.id = conv_id THEN [c EXCEPT !.last_viewed = clock] ELSE c :
        c \in conversations }

\* What a call of update_last_viewed gives its caller: an UPDATE that matches
\* no row raises nothing, cursor.rowcount is not read, and the function has no
\* return statement
update_last_viewed_outcome(conv_id) == [raised |-> "none", returned |-> None]

\* save_turn: the INSERT INTO turns
save_turn(turn_id, conv_id, number, speaker, text, start_ms, end_ms, audio_path) ==
    turns \cup { [ id |-> turn_id, conversation_id |-> conv_id, number |-> number,
                   speaker |-> speaker, text |-> text, start_ms |-> start_ms,
                   end_ms |-> end_ms, audio_path |-> audio_path ] }

\* ORDER BY number
RECURSIVE OrderByNumber(_)
OrderByNumber(rows) ==
    IF rows = {} THEN << >>
    ELSE LET r == CHOOSE r \in rows : \A q \in rows : r.number <= q.number
         IN << r >> \o OrderByNumber(rows \ {r})

\* The loop of load_conversation_turns over the fetched rows: a row whose
\* audio file does not exist is left out
RECURSIVE LoadRows(_)
LoadRows(rows) ==
    IF rows = << >> THEN << >>
    ELSE LET row == Head(rows)
         IN (IF row.audio_path \in DOMAIN files
             THEN << [ number |-> row.number, speaker |-> row.speaker,
                       text |-> row.text, start |-> Div1000(row.start_ms),
                       end |-> Div1000(row.end_ms),
                       audio_b64 |-> b64encode(files[row.audio_path]) ] >>
             ELSE << >>) \o LoadRows(Tail(rows))

load_conversation_turns(conv_id) ==
    LoadRows(OrderByNumber({ t \in turns : t.conversation_id = conv_id }))

\* get_conversation_by_id: the columns id, filename, format, duration, turns,
\* speakers, processed_at of the row, or None
get_conversation_by_id(conv_id) ==
    LET found == { c \in conversations : c.id = conv_id }
    IN IF found = {} THEN None
       ELSE LET c == CHOOSE c \in found : TRUE
            IN Some([ id |-> c.id, filename |-> c.filename, format |-> c.format,
                      duration |-> c.duration, turns |-> c.turns,
                      speakers |-> c.speakers, processed_at |-> c.processed_at ])

\* Mutant: delete_conversation forgets the turns table
delete_turns_Skipped(conv_id) == turns

\* DELETE FROM turns WHERE conversation_id = conv_id
delete_turns(conv_id) == { t \in turns : t.conversation_id # conv_id }

\* DELETE FROM conversations WHERE id = conv_id
delete_conversation_row(conv_id) == { c \in conversations : c.id # conv_id }

---------------------------------------------------------------------------
(* The blob store *)

OriginalPath(conv_id, audio_format) ==
    [dir |-> conv_id, sub |-> "", name |-> <<"original", 0, audio_format>>]

\* Mutant: the segment file is named after the speaker alone
SegmentPath_NoNumber(conv_id, speaker, number, audio_format) ==
    [dir |-> conv_id, sub |-> "segments", name |-> <<Lower(speaker), 0, audio_format>>]

\* f"{conv_id}/segments/{speaker.lower()}_{number:03d}.{audio_format}"
SegmentPath(conv_id, speaker, number, audio_format) ==
    [dir |-> conv_id, sub |-> "segments", name |-> <<Lower(speaker), number, audio_format>>]

\* open(path, 'wb').write(data): creates or replaces the file
WriteFile(fs, path, data) ==
    [p \in DOMAIN fs \cup {path} |-> IF p = path THEN data ELSE fs[p]]

\* The segment loop of save_audio_files, from turn k on
RECURSIVE WriteSegments(_, _, _, _, _)
WriteSegments(fs, conv_id, audio_format, turns_data, k) ==
    IF k > Len(turns_data) THEN fs
    ELSE LET turn == turns_data[k]
         IN WriteSegments(
               WriteFile(fs, SegmentPath(conv_id, turn.speaker, turn.number,
                                         audio_format),
                         b64decode(turn.audio_b64)),
               conv_id, audio_format, turns_data, k + 1)

\* save_audio_files: the directories, the files and the turns (each with its
\* audio_path) it leaves
save_audio_files(conv_id, audio_bytes, audio_format, turns_data) ==
    [ dirs |-> dirs \cup {conv_id},
      files |-> WriteSegments(
                   WriteFile(files, OriginalPath(conv_id, audio_format),
                             \* the original is stored as uploaded
                             audio_bytes),
                   conv_id, audio_format, turns_data, 1),
      turns_data |-> [ k \in 1..Len(turns_data) |->
                        [turns_data[k] EXCEPT !.audio_path =
                           Some(SegmentPath(conv_id, turns_data[k].speaker,
                                            turns_data[k].number, audio_format))] ] ]

\* shutil.rmtree(STORAGE_DIR / storage_path), when the directory exists
rmtree_dirs(storage_path) == dirs \ {storage_path}
rmtree_files(storage_path) ==
    [p \in { q \in DOMAIN files : q.dir # storage_path } |-> files[p]]

---------------------------------------------------------------------------
(* Session state and script runs *)

InitialSession ==
    [ page |-> "upload", current_turns |-> None, current_filename |-> None,
      current_format |-> None, current_conversation_id |-> None,
      uploaded_fingerprint |-> None, show_override_warning |-> FALSE ]

Idle == [pc |-> "idle"]

Init ==
    /\ conversations = {}
    /\ turns = {}
    /\ dirs = {}
    /\ files = << >>
    /\ session = [s \in Sessions |-> InitialSession]
    /\ uploaded_file = [s \in Sessions |-> None]
    /\ run = [s \in Sessions |-> Idle]
    /\ alert = [s \in Sessions |-> "none"]
    /\ clock = 0
    /\ uuid_count = 0
    /\ deleted = {}
    /\ faults = 0

\* What every script run does to the session state before it reaches a button
\* of the upload page: st.session_state.uploaded_fingerprint = fingerprint
\* when a file is in the uploader (app.py:1023-1032)
TopOfScript(sess, file) ==
    IF sess.page = "upload" /\ file # None
    THEN [sess EXCEPT !.uploaded_fingerprint =
                          Some(get_audio_fingerprint(Val(file).bytes))]
    ELSE sess

\* The row find_existing_conversation returns for the file in the uploader of s
ExistingFor(s) ==
    find_existing_conversation(get_audio_fingerprint(Val(uploaded_file[s]).bytes))

OnUploadPageWithFile(s) ==
    /\ run[s].pc = "idle"
    /\ session[s].page = "upload"
    /\ uploaded_file[s] # None

StoreUnchanged == UNCHANGED <<conversations, turns, dirs, files, deleted, faults>>

\* The wall clock advances
Tick ==
    /\ clock < MaxClock
    /\ clock' = clock + 1
    /\ UNCHANGED <<conversations, turns, dirs, files, session, uploaded_file, run,
                   alert, uuid_count, deleted, faults>>

\* The user puts file f in the uploader; the script runs with no button pressed
ChooseFile(s, f) ==
    /\ run[s].pc = "idle"
    /\ session[s].page = "upload"
    /\ uploaded_file[s] # Some(f)
    /\ uploaded_file' = [uploaded_file EXCEPT ![s] = Some(f)]
    /\ session' = [session EXCEPT ![s] = TopOfScript(session[s], Some(f))]
    /\ alert' = [alert EXCEPT ![s] = "none"]
    /\ StoreUnchanged
    /\ UNCHANGED <<run, clock, uuid_count>>

\* The user removes the file from the uploader
ClearFile(s) ==
    /\ OnUploadPageWithFile(s)
    /\ uploaded_file' = [uploaded_file EXCEPT ![s] = None]
    /\ alert' = [alert EXCEPT ![s] = "none"]
    /\ StoreUnchanged
    /\ UNCHANGED <<session, run, clock, uuid_count>>

\* Sidebar button "Upload New Audio" and the rerun it asks for
NavUpload(s) ==
    /\ run[s].pc = "idle"
    /\ session' = [session EXCEPT ![s] =
          TopOfScript([session[s] EXCEPT !.page = "upload",
                                         !.current_turns = None,
                                         !.current_conversation_id = None,
                                         !.uploaded_fingerprint = None,
                                         !.show_override_warning = FALSE],
                      uploaded_file[s])]
    /\ alert' = [alert EXCEPT ![s] = "none"]
    /\ StoreUnchanged
    /\ UNCHANGED <<uploaded_file, run, clock, uuid_count>>

\* Sidebar button "View History" and the rerun it asks for; the uploader is
\* not part of the history page, so its value is dropped
NavHistory(s) ==
    /\ run[s].pc = "idle"
    /\ session' = [session EXCEPT ![s] =
          [session[s] EXCEPT !.page = "history",
                             !.current_turns = None,
                             !.uploaded_fingerprint = None,
                             !.show_override_warning = FALSE]]
    /\ uploaded_file' = [uploaded_file EXCEPT ![s] = None]
    /\ alert' = [alert EXCEPT ![s] = "none"]
    /\ StoreUnchanged
    /\ UNCHANGED <<run, clock, uuid_count>>

\* What "Load Saved Results" and "Cancel - Load Saved Results" store in the
\* session for the conversation found (app.py:1070-1075, 1114-1119)
LoadedSession(sess, existing, file_ext) ==
    [sess EXCEPT !.current_turns = Some(load_conversation_turns(existing.id)),
                 !.current_filename = Some(existing.filename.stem),
                 !.current_format = Some(file_ext),
                 !.current_conversation_id = Some(existing.id)]

\* Button "Load Saved Results" of the duplicate warning
LoadSaved(s) ==
    /\ OnUploadPageWithFile(s)
    /\ ExistingFor(s) # None
    /\ ~session[s].show_override_warning
    /\ LET existing == Val(ExistingFor(s))
           sess == TopOfScript(session[s], uploaded_file[s])
       IN /\ conversations' = update_last_viewed(existing.id)
          /\ session' = [session EXCEPT ![s] =
                LoadedSession(sess, existing, Val(uploaded_file[s]).ext)]
    /\ alert' = [alert EXCEPT ![s] = "none"]
    /\ UNCHANGED <<turns, dirs, files, deleted, faults, uploaded_file, run, clock, uuid_count>>

\* Button "View in History" of the duplicate warning
ViewInHistory(s) ==
    /\ OnUploadPageWithFile(s)
    /\ ExistingFor(s) # None
    /\ ~session[s].show_override_warning
    /\ session' = [session EXCEPT ![s] =
          [TopOfScript(session[s], uploaded_file[s]) EXCEPT
              !.page = "history",
              !.current_conversation_id = Some(Val(ExistingFor(s)).id)]]
    /\ uploaded_file' = [uploaded_file EXCEPT ![s] = None]
    /\ alert' = [alert EXCEPT ![s] = "none"]
    /\ StoreUnchanged
    /\ UNCHANGED <<run, clock, uuid_count>>

\* Button "Override" of the duplicate warning
Override(s) ==
    /\ OnUploadPageWithFile(s)
    /\ ExistingFor(s) # None
    /\ ~session[s].show_override_warning
    /\ session' = [session EXCEPT ![s] =
          [TopOfScript(session[s], uploaded_file[s]) EXCEPT
              !.show_override_warning = TRUE]]
    /\ alert' = [alert EXCEPT ![s] = "none"]
    /\ StoreUnchanged
    /\ UNCHANGED <<uploaded_file, run, clock, uuid_count>>

\* Button "Cancel - Load Saved Results" of the override confirmation
CancelLoad(s) ==
    /\ OnUploadPageWithFile(s)
    /\ session[s].show_override_warning
    /\ LET sess == TopOfScript(session[s], uploaded_file[s])
           existing == find_existing_conversation(Val(sess.uploaded_fingerprint))
       IN /\ existing # None
          /\ conversations' = update_last_viewed(Val(existing).id)
          /\ session' = [session EXCEPT ![s] =
                [LoadedSession(sess, Val(existing), Val(uploaded_file[s]).ext)
                    EXCEPT !.show_override_warning = FALSE]]
    /\ alert' = [alert EXCEPT ![s] = "none"]
    /\ UNCHANGED <<turns, dirs, files, deleted, faults, uploaded_file, run, clock, uuid_count>>

---------------------------------------------------------------------------
(* Button "Process Audio" (app.py:1128-1189), one step per call that commits *)

\* The click: the button is rendered only if no conversation has the
\* fingerprint of the file or the override flag is set
ProcessClick(s, speakers_expected) ==
    /\ OnUploadPageWithFile(s)
    /\ ExistingFor(s) = None \/ session[s].show_override_warning
    /\ uuid_count < MaxUuid
    /\ LET file == Val(uploaded_file[s])
       IN run' = [run EXCEPT ![s] =
             [ pc |-> "transcribe",
               audio_bytes |-> file.bytes,
               name |-> [stem |-> file.stem, ext |-> file.ext],
               file_ext |-> file.ext,
               fingerprint |-> get_audio_fingerprint(file.bytes),
               speakers_expected |-> speakers_expected ]]
    /\ session' = [session EXCEPT ![s] = TopOfScript(session[s], uploaded_file[s])]
    /\ alert' = [alert EXCEPT ![s] = "none"]
    /\ StoreUnchanged
    /\ UNCHANGED <<uploaded_file, clock, uuid_count>>

\* Mutant: the run persists whatever list process_audio returns, also an
\* empty one ("if turns is not None:")
ProcessAudio_PersistsEmpty(s, transcript) ==
    /\ run[s].pc = "transcribe"
    /\ LET r == run[s]
           result == process_audio(transcript, r.audio_bytes, AudioLenMs, r.file_ext)
       IN /\ result # None => uuid_count + 1 + Len(Val(result)) <= MaxUuid
          /\ alert' = [alert EXCEPT ![s] =
                IF process_audio_reports_error(transcript) THEN "st.error" ELSE "none"]
          /\ IF result = None
             THEN /\ run' = [run EXCEPT ![s] = Idle]
                  /\ UNCHANGED uuid_count
             ELSE /\ uuid_count' = uuid_count + 1
                  /\ run' = [run EXCEPT ![s] =
                        [ pc |-> "save_audio_files",
                          audio_bytes |-> r.audio_bytes, name |-> r.name,
                          file_ext |-> r.file_ext, fingerprint |-> r.fingerprint,
                          speakers_expected |-> r.speakers_expected,
                          turns |-> Val(result),
                          conv_id |-> uuid_count + 1,
                          duration |-> IF Val(result) = << >> THEN Div1000(0)
                                       ELSE Val(result)[Len(Val(result))].end,
                          i |-> 1 ]]
    /\ StoreUnchanged
    /\ UNCHANGED <<session, uploaded_file, clock>>

\* turns = process_audio(...), then "if turns:", conv_id = uuid4() and the
\* duration (app.py:1149-1161)
ProcessAudio(s, transcript) ==
    /\ run[s].pc = "transcribe"
    /\ LET r == run[s]
           result == process_audio(transcript, r.audio_bytes, AudioLenMs, r.file_ext)
       IN /\ result # None => uuid_count + 1 + Len(Val(result)) <= MaxUuid
          /\ alert' = [alert EXCEPT ![s] =
                IF process_audio_reports_error(transcript) THEN "st.error" ELSE "none"]
          /\ IF result = None \/ Val(result) = << >>
             THEN /\ run' = [run EXCEPT ![s] = Idle]
                  /\ UNCHANGED uuid_count
             ELSE /\ uuid_count' = uuid_count + 1
                  /\ run' = [run EXCEPT ![s] =
                        [ pc |-> "save_audio_files",
                          audio_bytes |-> r.audio_bytes, name |-> r.name,
                          file_ext |-> r.file_ext, fingerprint |-> r.fingerprint,
                          speakers_expected |-> r.speakers_expected,
                          turns |-> Val(result),
                          conv_id |-> uuid_count + 1,
                          duration |-> Val(result)[Len(Val(result))].end,
                          i |-> 1 ]]
    /\ StoreUnchanged
    /\ UNCHANGED <<session, uploaded_file, clock>>

\* save_audio_files(conv_id, audio_bytes, file_ext, turns) (app.py:1164)
SaveAudioFiles(s) ==
    /\ run[s].pc = "save_audio_files"
    /\ LET r == run[s]
           saved == save_audio_files(r.conv_id, r.audio_bytes, r.file_ext, r.turns)
       IN /\ dirs' = saved.dirs
          /\ files' = saved.files
          /\ run' = [run EXCEPT ![s] =
                [r EXCEPT !.pc = "save_conversation", !.turns = saved.turns_data]]
    /\ UNCHANGED <<conversations, turns, deleted, faults, session, uploaded_file,
                   alert, clock, uuid_count>>

\* save_conversation(...) (app.py:1167-1171); sqlite3.IntegrityError is caught
\* nowhere, so it ends the script run
SaveConversation(s) ==
    /\ run[s].pc = "save_conversation"
    /\ LET r == run[s]
           saved == save_conversation(r.conv_id, r.fingerprint, r.name, r.file_ext,
                                      r.duration, r.speakers_expected,
                                      Len(r.turns), r.conv_id)
       IN IF saved.raised # "none"
          THEN /\ run' = [run EXCEPT ![s] = Idle]
               /\ alert' = [alert EXCEPT ![s] = saved.raised]
               /\ UNCHANGED conversations
          ELSE /\ conversations' = saved.table
               /\ run' = [run EXCEPT ![s] = [r EXCEPT !.pc = "save_turn"]]
               /\ UNCHANGED alert
    /\ UNCHANGED <<turns, dirs, files, deleted, faults, session, uploaded_file, clock,
                   uuid_count>>

\* What the run stores in the session after the last save_turn (app.py:1183-1187)
ProcessedSession(sess, r) ==
    [sess EXCEPT !.current_turns = Some(r.turns),
                 !.current_filename = Some(r.name.stem),
                 !.current_format = Some(r.file_ext),
                 !.current_conversation_id = Some(r.conv_id),
                 !.show_override_warning = FALSE]

\* One pass of the loop "for turn in turns: save_turn(uuid4(), ...)"
\* (app.py:1174-1181); after the last one the session is updated and the
\* script reruns
SaveTurn(s) ==
    /\ run[s].pc = "save_turn"
    /\ LET r == run[s]
           turn == r.turns[r.i]
       IN /\ turns' = save_turn(uuid_count + 1, r.conv_id, turn.number, turn.speaker,
                                turn.text, turn.start_ms, turn.end_ms,
                                Val(turn.audio_path))
          /\ uuid_count' = uuid_count + 1
          /\ IF r.i < Len(r.turns)
             THEN /\ run' = [run EXCEPT ![s] = [r EXCEPT !.i = r.i + 1]]
                  /\ UNCHANGED session
             ELSE /\ run' = [run EXCEPT ![s] = Idle]
                  /\ session' = [session EXCEPT ![s] =
                        TopOfScript(ProcessedSession(session[s], r), uploaded_file[s])]
    /\ UNCHANGED <<conversations, dirs, files, deleted, faults, uploaded_file, alert,
                   clock>>

\* A write of the persist step raises (disk full, database locked): the
\* exception is caught nowhere and ends the script run where it is.  In
\* save_audio_files it is the write of a segment that raises, after the
\* directories were made and the original was written; an INSERT that raises
\* inserts nothing
PersistFails(s) ==
    /\ run[s].pc \in {"save_audio_files", "save_conversation", "save_turn"}
    /\ faults < MaxFaults
    /\ faults' = faults + 1
    /\ IF run[s].pc = "save_audio_files"
       THEN /\ alert' = [alert EXCEPT ![s] = "OSError"]
            /\ dirs' = dirs \cup {run[s].conv_id}
            /\ files' = WriteFile(files, OriginalPath(run[s].conv_id, run[s].file_ext),
                                  run[s].audio_bytes)
       ELSE /\ alert' = [alert EXCEPT ![s] = "OperationalError"]
            /\ UNCHANGED <<dirs, files>>
    /\ run' = [run EXCEPT ![s] = Idle]
    /\ UNCHANGED <<conversations, turns, deleted>>
    /\ UNCHANGED <<session, uploaded_file, clock, uuid_count>>

---------------------------------------------------------------------------
(* History page (app.py:1191-1293) *)

\* Button "View" of the card of conversation conv_id
ViewClick(s, conv_id) ==
    /\ run[s].pc = "idle"
    /\ session[s].page = "history"
    /\ \E c \in conversations : c.id = conv_id
    /\ LET loaded == load_conversation_turns(conv_id)
           conv_meta == get_conversation_by_id(conv_id)
       IN /\ conversations' = update_last_viewed(conv_id)
          /\ session' = [session EXCEPT ![s] =
                IF conv_meta = None THEN session[s]
                ELSE [session[s] EXCEPT
                        !.current_turns = Some(loaded),
                        !.current_filename = Some(Val(conv_meta).filename.stem),
                        !.current_format = Some(Val(conv_meta).format),
                        !.current_conversation_id = Some(conv_id)]]
    /\ alert' = [alert EXCEPT ![s] = "none"]
    /\ UNCHANGED <<turns, dirs, files, deleted, faults, uploaded_file, run, clock, uuid_count>>

\* Button "Delete" of the card of conversation conv_id: the script run starts
DeleteClick(s, conv_id) ==
    /\ run[s].pc = "idle"
    /\ session[s].page = "history"
    /\ \E c \in conversations : c.id = conv_id
    /\ run' = [run EXCEPT ![s] = [pc |-> "delete", conv_id |-> conv_id]]
    /\ alert' = [alert EXCEPT ![s] = "none"]
    /\ StoreUnchanged
    /\ UNCHANGED <<session, uploaded_file, clock, uuid_count>>

\* After delete_conversation: "Clear current if deleting active conversation"
AfterDelete(sess, conv_id) ==
    IF sess.current_conversation_id = Some(conv_id)
    THEN [sess EXCEPT !.current_turns = None, !.current_conversation_id = None]
    ELSE sess

\* delete_conversation, first part: SELECT storage_path, and rmtree of the
\* directory when the row was found (app.py:235-243)
DeleteFiles(s) ==
    /\ run[s].pc = "delete"
    /\ LET conv_id == run[s].conv_id
           result == { c \in conversations : c.id = conv_id }
       IN IF result = {}
          THEN /\ run' = [run EXCEPT ![s] = Idle]
               /\ session' = [session EXCEPT ![s] = AfterDelete(session[s], conv_id)]
               /\ UNCHANGED <<dirs, files>>
          ELSE LET storage_path == (CHOOSE c \in result : TRUE).storage_path
               IN /\ dirs' = rmtree_dirs(storage_path)
                  /\ files' = rmtree_files(storage_path)
                  /\ run' = [run EXCEPT ![s] = [run[s] EXCEPT !.pc = "delete_rows"]]
                  /\ UNCHANGED session
    /\ UNCHANGED <<conversations, turns, deleted, faults, uploaded_file, alert, clock,
                   uuid_count>>

\* delete_conversation, second part: DELETE FROM turns, DELETE FROM
\* conversations, commit (app.py:246-248); then the handler clears the session
DeleteRows(s) ==
    /\ run[s].pc = "delete_rows"
    /\ LET conv_id == run[s].conv_id
       IN /\ turns' = delete_turns(conv_id)
          /\ conversations' = delete_conversation_row(conv_id)
          /\ deleted' = deleted \cup
                { <<c.id, c.fingerprint>> : c \in { d \in conversations : d.id = conv_id } }
          /\ session' = [session EXCEPT ![s] = AfterDelete(session[s], conv_id)]
    /\ run' = [run EXCEPT ![s] = Idle]
    /\ UNCHANGED <<dirs, files, faults, uploaded_file, alert, clock, uuid_count>>

\* The DELETE statements raise (database locked): the exception ends the
\* script run after the files were removed
DeleteFails(s) ==
    /\ run[s].pc = "delete_rows"
    /\ alert' = [alert EXCEPT ![s] = "OperationalError"]
    /\ run' = [run EXCEPT ![s] = Idle]
    /\ faults < MaxFaults
    /\ faults' = faults + 1
    /\ UNCHANGED <<conversations, turns, dirs, files, deleted>>
    /\ UNCHANGED <<session, uploaded_file, clock, uuid_count>>

---------------------------------------------------------------------------

\* The steps session s can take, with the files its user can pick and the
\* outcomes of the transcription service
SessionStep(s, uploads, transcripts) ==
    \/ \E f \in uploads : ChooseFile(s, f)
    \/ ClearFile(s)
    \/ NavUpload(s)
    \/ NavHistory(s)
    \/ LoadSaved(s)
    \/ ViewInHistory(s)
    \/ Override(s)
    \/ CancelLoad(s)
    \/ \E n \in SpeakerCounts : ProcessClick(s, n)
    \/ \E t \in transcripts : ProcessAudio(s, t)
    \/ SaveAudioFiles(s)
    \/ SaveConversation(s)
    \/ SaveTurn(s)
    \/ \E c \in conversations : ViewClick(s, c.id)
    \/ \E c \in conversations : DeleteClick(s, c.id)
    \/ DeleteFiles(s)
    \/ DeleteRows(s)

\* The single-user tool: one session, every upload and transcript of the
\* model, and writes that raise.  The wall clock stands still: every
\* timestamp written is the same.
Next ==
    \/ SessionStep(1, Uploads, Transcripts)
    \/ PersistFails(1)
    \/ DeleteFails(1)

Spec == Init /\ [][Next]_vars

\* The same with the wall clock advancing between any two steps
NextClock == Tick \/ Next

SpecClock == Init /\ [][NextClock]_vars

---------------------------------------------------------------------------
(* The processing pipeline on every utterance list of the bounds *)

\* Offsets the transcription service can give an utterance: before the start
\* of the audio, inside it, and beyond its end
PipelineTimes == (0 - 1)..(AudioLenMs + 1)

PipelineUtterances(text) ==
    { Utt(sp, text, s, e) : sp \in {"A", "B"}, s \in PipelineTimes, e \in PipelineTimes }

\* Every list of at most two such utterances, in any order of their offsets
PipelineTranscripts ==
    { [status |-> "completed", utterances |-> u, fail_at |-> 0] :
        u \in {<< >>}
              \cup { <<a>> : a \in PipelineUtterances("t1") }
              \cup { <<a, b>> : a \in PipelineUtterances("t1"),
                                b \in PipelineUtterances("t2") } }

PipelineUploads == { [stem |-> "x", ext |-> "wav", bytes |-> "pcm1"] }

\* One user uploads one file, processes it with any of these utterance lists
\* and, once it is stored, loads it back from the store
NextPipeline ==
    \/ \E f \in PipelineUploads : ChooseFile(1, f)
    \/ \E n \in SpeakerCounts : ProcessClick(1, n)
    \/ \E t \in PipelineTranscripts : ProcessAudio(1, t)
    \/ SaveAudioFiles(1)
    \/ SaveConversation(1)
    \/ SaveTurn(1)
    \/ LoadSaved(1)

SpecPipeline == Init /\ [][NextPipeline]_vars

---------------------------------------------------------------------------
(* One user, with the wall clock advancing and no write failing *)

\* Two files of one name and different bytes
ViewUploads == { f \in Uploads : f.stem = "x" }

\* The service completes and no call fails
ViewTranscripts == { t \in Transcripts : t.status = "completed" /\ t.fail_at = 0 }

NextViews == Tick \/ SessionStep(1, ViewUploads, ViewTranscripts)

SpecViews == Init /\ [][NextViews]_vars

---------------------------------------------------------------------------
(* Two sessions uploading the same bytes *)

\* The same bytes, under two filenames
RaceUploads == { f \in Uploads : f.bytes = "pcm1" }

\* The service returns one utterance; no call fails
RaceTranscripts ==
    { [status |-> "completed", utterances |-> << Utt("A", "t1", 0, AudioLenMs) >>,
       fail_at |-> 0] }

\* Each of the two sessions uploads and processes; their script runs
\* interleave at every call that commits
NextRace ==
    \E s \in Sessions :
        \/ \E f \in RaceUploads : ChooseFile(s, f)
        \/ \E n \in SpeakerCounts : ProcessClick(s, n)
        \/ \E t \in RaceTranscripts : ProcessAudio(s, t)
        \/ SaveAudioFiles(s)
        \/ SaveConversation(s)
        \/ SaveTurn(s)

SpecRace == Init /\ [][NextRace]_vars

---------------------------------------------------------------------------
(* A view in one session while another session deletes: the handlers of the
   history page, one step per query and per file-system call *)

\* Button "View": the click is handled by the script run that still lists the
\* conversation (app.py:1194, 1253)
ViewStart(s, conv_id) ==
    /\ run[s].pc = "idle"
    /\ session[s].page = "history"
    /\ \E c \in conversations : c.id = conv_id
    /\ run' = [run EXCEPT ![s] = [pc |-> "view_load", conv_id |-> conv_id]]
    /\ alert' = [alert EXCEPT ![s] = "none"]
    /\ StoreUnchanged
    /\ UNCHANGED <<session, uploaded_file, clock, uuid_count>>

\* turns = load_conversation_turns(conv_id) (app.py:1254)
ViewLoad(s) ==
    /\ run[s].pc = "view_load"
    /\ run' = [run EXCEPT ![s] =
          [ pc |-> "view_touch", conv_id |-> run[s].conv_id,
            turns |-> load_conversation_turns(run[s].conv_id) ]]
    /\ StoreUnchanged
    /\ UNCHANGED <<session, uploaded_file, alert, clock, uuid_count>>

\* update_last_viewed(conv_id) (app.py:1255)
ViewTouch(s) ==
    /\ run[s].pc = "view_touch"
    /\ conversations' = update_last_viewed(run[s].conv_id)
    /\ run' = [run EXCEPT ![s] = [run[s] EXCEPT !.pc = "view_meta"]]
    /\ UNCHANGED <<turns, dirs, files, deleted, faults, session, uploaded_file, alert,
                   clock, uuid_count>>

\* conv_meta = get_conversation_by_id(conv_id) and, if it is found, the update
\* of the session (app.py:1258-1265)
ViewMeta(s) ==
    /\ run[s].pc = "view_meta"
    /\ LET conv_meta == get_conversation_by_id(run[s].conv_id)
       IN session' = [session EXCEPT ![s] =
             IF conv_meta = None THEN session[s]
             ELSE [session[s] EXCEPT
                     !.current_turns = Some(run[s].turns),
                     !.current_filename = Some(Val(conv_meta).filename.stem),
                     !.current_format = Some(Val(conv_meta).format),
                     !.current_conversation_id = Some(run[s].conv_id)]]
    /\ run' = [run EXCEPT ![s] = Idle]
    /\ StoreUnchanged
    /\ UNCHANGED <<uploaded_file, alert, clock, uuid_count>>

\* delete_conversation: SELECT storage_path (app.py:235-238)
DeleteSelect(s) ==
    /\ run[s].pc = "delete"
    /\ LET conv_id == run[s].conv_id
           result == { c \in conversations : c.id = conv_id }
       IN IF result = {}
          THEN /\ run' = [run EXCEPT ![s] = Idle]
               /\ session' = [session EXCEPT ![s] = AfterDelete(session[s], conv_id)]
          ELSE /\ run' = [run EXCEPT ![s] =
                     [ pc |-> "rmtree", conv_id |-> conv_id,
                       storage_path |-> (CHOOSE c \in result : TRUE).storage_path ]]
               /\ UNCHANGED session
    /\ StoreUnchanged
    /\ UNCHANGED <<uploaded_file, alert, clock, uuid_count>>

\* shutil.rmtree removes the files of the directory one at a time, in the
\* order the file system lists them (app.py:243)
RmtreeUnlink(s) ==
    /\ run[s].pc = "rmtree"
    /\ \E p \in DOMAIN files :
          /\ p.dir = run[s].storage_path
          /\ files' = [q \in DOMAIN files \ {p} |-> files[q]]
    /\ UNCHANGED <<conversations, turns, dirs, deleted, faults, session, uploaded_file,
                   run, alert, clock, uuid_count>>

\* shutil.rmtree removes the emptied directory; the DELETE statements follow
RmtreeRmdir(s) ==
    /\ run[s].pc = "rmtree"
    /\ \A p \in DOMAIN files : p.dir # run[s].storage_path
    /\ dirs' = rmtree_dirs(run[s].storage_path)
    /\ run' = [run EXCEPT ![s] =
          [pc |-> "delete_rows", conv_id |-> run[s].conv_id]]
    /\ UNCHANGED <<conversations, turns, files, deleted, faults, session,
                   uploaded_file, alert, clock, uuid_count>>

\* The service returns two utterances; no call fails
ViewDeleteTranscripts ==
    { [status |-> "completed",
       utterances |-> << Utt("A", "t1", 0, 2), Utt("B", "t2", 2, AudioLenMs) >>,
       fail_at |-> 0] }

\* The user of session 1 uploads a file, processes it and deletes it on the
\* history page
Owner(s) ==
    \/ \E f \in PipelineUploads : ChooseFile(s, f)
    \/ \E n \in SpeakerCounts : ProcessClick(s, n)
    \/ \E t \in ViewDeleteTranscripts : ProcessAudio(s, t)
    \/ SaveAudioFiles(s)
    \/ SaveConversation(s)
    \/ SaveTurn(s)
    \/ NavHistory(s)
    \/ \E c \in conversations : DeleteClick(s, c.id)
    \/ DeleteSelect(s)
    \/ RmtreeUnlink(s)
    \/ RmtreeRmdir(s)
    \/ DeleteRows(s)

\* The user of session 2 browses the history page and views conversations
Viewer(s) ==
    \/ NavHistory(s)
    \/ NavUpload(s)
    \/ \E c \in conversations : ViewStart(s, c.id)
    \/ ViewLoad(s)
    \/ ViewTouch(s)
    \/ ViewMeta(s)

NextViewDelete == Owner(1) \/ Viewer(2)

SpecViewDelete == Init /\ [][NextViewDelete]_vars

---------------------------------------------------------------------------
(* Properties *)

RunEnds(s) == run[s].pc # "idle" /\ run'[s].pc = "idle"

Failure == {"IntegrityError", "OperationalError", "OSError"}

RowsWith(fingerprint) == { c \in conversations : c.fingerprint = fingerprint }

TurnRowsOf(conv_id) == { t \in turns : t.conversation_id = conv_id }

\* C1: no two rows of table conversations have the same fingerprint.
C1_FingerprintsDiffer ==
    \A c1 \in conversations : \A c2 \in conversations :
        c1 # c2 => c1.fingerprint # c2.fingerprint

\* A conversation is stored, and a run that tried to store its fingerprint a
\* second time (after Override) has ended.
C1_Witness ==
    /\ \E s \in Sessions : alert[s] = "IntegrityError"
    /\ conversations # {}

\* C2 (as claimed): a processing run on bytes whose fingerprint is already
\* stored adds no row and leaves the session's current conversation at the
\* stored conversation's id (stated for the behaviours in which no write of
\* the environment has failed).
C2_SecondAttemptResolvesToFirst ==
    [][ \A s \in Sessions :
          ( /\ run[s].pc = "save_conversation"
            /\ RunEnds(s)
            /\ faults' = 0
            /\ RowsWith(run[s].fingerprint) # {} )
          => /\ conversations' = conversations
             /\ \E c \in RowsWith(run[s].fingerprint) :
                   session'[s].current_conversation_id = Some(c.id) ]_vars

\* C3: once delete_conversation(id) has completed, no conversation row has the
\* id, load_conversation_turns(id) is empty, no turn row has it as
\* conversation_id, and neither the directory STORAGE_DIR/<id> nor a file
\* under it exists.
C3_DeleteIsTotal ==
    \A d \in deleted :
        /\ get_conversation_by_id(d[1]) = None
        /\ load_conversation_turns(d[1]) = << >>
        /\ TurnRowsOf(d[1]) = {}
        /\ d[1] \notin dirs
        /\ \A p \in DOMAIN files : p.dir # d[1]

\* A conversation was deleted while another conversation, with its turns and
\* files, is stored.
C3_Witness ==
    /\ deleted # {}
    /\ conversations # {}
    /\ turns # {}
    /\ dirs # {}

\* C4: when no row has the fingerprint of the upload, also when a conversation
\* with that fingerprint was deleted before, the upload is not reported as a
\* duplicate, and save_conversation inserts a row with that fingerprint whose
\* id is the id of no row stored or deleted before.
C4_RecreateAfterDelete ==
    [][ \A s \in Sessions :
          /\ ( /\ OnUploadPageWithFile(s)
               /\ RowsWith(get_audio_fingerprint(Val(uploaded_file[s]).bytes)) = {} )
             => ExistingFor(s) = None
          /\ ( /\ run[s].pc = "save_conversation"
               /\ run'[s] # run[s]
               /\ faults' = faults
               /\ RowsWith(run[s].fingerprint) = {} )
             => \E c \in conversations' :
                   /\ conversations' = conversations \cup {c}
                   /\ c.fingerprint = run[s].fingerprint
                   /\ \A o \in conversations : o.id # c.id
                   /\ \A d \in deleted : d[1] # c.id ]_vars

\* A conversation is stored whose fingerprint is that of a conversation
\* deleted before, under another id.
C4_Witness ==
    \E c \in conversations : \E d \in deleted :
        d[2] = c.fingerprint /\ d[1] # c.id

\* C5: save_conversation with a fingerprint that is in the table raises the
\* constraint violation and leaves both tables as they were.
C5_DuplicateInsertFails ==
    [][ \A s \in Sessions :
          ( /\ run[s].pc = "save_conversation"
            /\ run'[s] # run[s]
            /\ faults' = faults
            /\ RowsWith(run[s].fingerprint) # {} )
          => /\ alert'[s] = "IntegrityError"
             /\ conversations' = conversations
             /\ turns' = turns ]_vars

\* A run has ended with the constraint violation while the row that caused it
\* is stored with its turns.
C5_Witness ==
    \E s \in Sessions :
        /\ alert[s] = "IntegrityError"
        /\ run[s].pc = "idle"
        /\ \E c \in conversations : TurnRowsOf(c.id) # {}

\* C6 (as claimed): no script run ends with the constraint violation uncaught.
C6_ConstraintViolationHandled ==
    \A s \in Sessions : alert[s] # "IntegrityError"

\* C7 (as claimed): the turns column of every conversation row is the number of
\* turn rows of that conversation.
C7_TurnsCountMatches ==
    \A c \in conversations : c.turns = Cardinality(TurnRowsOf(c.id))

\* C8 (as claimed): when a run has ended with a failure, every conversation row
\* has all its turn rows.
C8_PersistIsAtomic ==
    \A s \in Sessions :
        (run[s].pc = "idle" /\ alert[s] \in Failure)
        => \A c \in conversations : c.turns = Cardinality(TurnRowsOf(c.id))

\* C9 (as claimed): the audio_path of every turn row names a file that exists.
C9_TurnBlobsExist ==
    \A t \in turns : t.audio_path \in DOMAIN files

\* C10: when process_audio reports an error (the service's error status, or an
\* exception while slicing or encoding), the run ends there: it draws no id,
\* writes no directory, file or row, and does not call the service again.
C10_ErrorPersistsNothing ==
    [][ \A s \in Sessions :
          (run[s].pc = "transcribe" /\ alert'[s] = "st.error")
          => /\ run'[s].pc = "idle"
             /\ UNCHANGED <<conversations, turns, dirs, files, uuid_count>> ]_vars

\* A run has ended with the error of process_audio.
C10_Witness ==
    \E s \in Sessions : alert[s] = "st.error" /\ run[s].pc = "idle"

\* A conversation row all of whose turn rows are stored
FullyStored(c) == Cardinality(TurnRowsOf(c.id)) = c.turns

\* C11 (as claimed): for every conversation stored with all its turns by writes
\* that did not fail, load_conversation_turns returns turns numbered from 1,
\* with strictly increasing number and non-decreasing start.
C11_LoadedTurnsNumberedFromOne ==
    \A c \in conversations :
        LET loaded == load_conversation_turns(c.id)
        IN (faults = 0 /\ FullyStored(c) /\ Len(loaded) = c.turns)
           => /\ loaded # << >> => loaded[1].number = 1
              /\ \A k \in 1..(Len(loaded) - 1) :
                    /\ loaded[k].number < loaded[k + 1].number
                    /\ loaded[k].start[1] <= loaded[k + 1].start[1]

\* C12 (as claimed): the turns process_audio returns are numbered 1..k in the
\* order of the list, also when an utterance before them was discarded.
C12_SurvivorsRenumbered ==
    \A s \in Sessions :
        run[s].pc = "save_audio_files"
        => \A k \in 1..Len(run[s].turns) : run[s].turns[k].number = k

\* C13: every turn row satisfies 0 <= start_ms < end_ms <= len(audio), whatever
\* offsets the service gave (negative, beyond the audio, end not after start).
C13_SegmentBounds ==
    \A t \in turns : 0 <= t.start_ms /\ t.start_ms < t.end_ms /\ t.end_ms <= AudioLenMs

\* A turn is stored, clamped at both ends, for an utterance the service placed
\* from before the start of the audio to beyond its end.
C13_Witness ==
    \E s \in Sessions :
        /\ session[s].current_turns # None
        /\ \E k \in 1..Len(Val(session[s].current_turns)) :
              LET turn == Val(session[s].current_turns)[k]
              IN /\ "start_ms" \in DOMAIN turn
                 /\ turn.start[1] < 0
                 /\ turn.end[1] > AudioLenMs
                 /\ \E t \in turns : /\ t.number = turn.number
                                     /\ t.start_ms = 0
                                     /\ t.end_ms = AudioLenMs

\* The turn row of conversation c with the highest number
LastTurnRow(c) ==
    CHOOSE t \in TurnRowsOf(c.id) : \A q \in TurnRowsOf(c.id) : q.number <= t.number

\* C14 (as claimed): the duration of a conversation stored with all its turns
\* is the end_ms of its last turn row, in seconds.
C14_DurationIsLastEnd ==
    \A c \in conversations :
        (faults = 0 /\ FullyStored(c) /\ TurnRowsOf(c.id) # {})
        => c.duration = Div1000(LastTurnRow(c).end_ms)

\* The conversation row of a turn row
ConversationOf(t) == CHOOSE c \in conversations : c.id = t.conversation_id

\* C17: the file at the audio_path of every turn row holds the bytes
\* process_audio encoded for that turn (the slice start_ms..end_ms of the
\* stored original, in the conversation's format), load_conversation_turns
\* returns those bytes, and two turn rows of one conversation have different
\* audio_path.
C17_SegmentRoundTrip ==
    \A t \in turns :
        LET c == ConversationOf(t)
            encoded == ExportSegment(files[OriginalPath(c.id, c.format)],
                                     t.start_ms, t.end_ms, c.format)
        IN /\ t.audio_path \in DOMAIN files
           /\ files[t.audio_path] = encoded
           /\ \A l \in { load_conversation_turns(c.id) } :
                 \A k \in 1..Len(l) :
                    l[k].number = t.number => b64decode(l[k].audio_b64) = encoded
           /\ \A q \in TurnRowsOf(c.id) : q # t => q.audio_path # t.audio_path

\* Two turns of one speaker are stored for one conversation, and the
\* conversation was loaded back from the store.
C17_Witness ==
    /\ \E t \in turns : \E q \in turns :
          /\ t # q
          /\ t.conversation_id = q.conversation_id
          /\ t.speaker = q.speaker
    /\ \E s \in Sessions :
          /\ session[s].current_turns # None
          /\ Len(Val(session[s].current_turns)) = 2
          /\ "start_ms" \notin DOMAIN Val(session[s].current_turns)[1]

\* C15 (as claimed): for an id that no conversation row has, update_last_viewed
\* changes no row and gives its caller an outcome that differs from the
\* outcome of a call that updated a row.
C15_AbsentIdIsSignalled ==
    \A conv_id \in 1..MaxUuid :
        get_conversation_by_id(conv_id) = None
        => /\ update_last_viewed(conv_id) = conversations
           /\ \A c \in conversations :
                 update_last_viewed_outcome(conv_id) # update_last_viewed_outcome(c.id)

\* C16: a step changes no field of a conversation row that stays in the table
\* other than last_viewed, and changes it only on the row the session then
\* displays; it changes no turn row that stays in the table.
C16_OnlyLastViewedChanges ==
    [][ /\ \A c \in conversations : \A d \in conversations' :
              d.id = c.id
              => /\ d = [c EXCEPT !.last_viewed = d.last_viewed]
                 /\ d # c => \E s \in Sessions :
                                session'[s].current_conversation_id = Some(c.id)
        /\ \A t \in turns : \A q \in turns' : q.id = t.id => q = t ]_vars

\* Two conversations are stored with their turns; one was displayed after the
\* clock advanced, the other still has the last_viewed of its creation.
C16_Witness ==
    \E c \in conversations : \E d \in conversations :
        /\ c.id # d.id
        /\ c.last_viewed > c.processed_at
        /\ d.last_viewed = d.processed_at
        /\ d.last_viewed < c.last_viewed
        /\ TurnRowsOf(c.id) # {}
        /\ TurnRowsOf(d.id) # {}

\* The "Process Audio" button is rendered for the file in the uploader of s
ProcessAvailable(s) ==
    /\ OnUploadPageWithFile(s)
    /\ ExistingFor(s) = None \/ session[s].show_override_warning

\* C20 (as claimed): when the user replaces a stored file in the uploader by a
\* file of other bytes whose fingerprint is stored too, "Process Audio" is not
\* available for the new file, for which Override was not pressed (stated for
\* the behaviours in which no write has failed).
C20_ProcessNeedsOverride ==
    [][ \A s \in Sessions :
          ( /\ faults' = 0
            /\ uploaded_file[s] # None
            /\ uploaded_file'[s] # None
            /\ Val(uploaded_file'[s]).bytes # Val(uploaded_file[s]).bytes
            /\ RowsWith(get_audio_fingerprint(Val(uploaded_file[s]).bytes)) # {}
            /\ RowsWith(get_audio_fingerprint(Val(uploaded_file'[s]).bytes)) # {} )
          => ~ProcessAvailable(s)' ]_vars

\* C18: in every interleaving of two sessions that upload the same bytes, a
\* save_conversation that finds the fingerprint in the table raises and
\* inserts nothing, and after every save_conversation at most one row has the
\* fingerprint.
C18_OneInsertWins ==
    [][ \A s \in Sessions :
          (run[s].pc = "save_conversation" /\ run'[s] # run[s])
          => /\ Cardinality({ c \in conversations' :
                                c.fingerprint = run[s].fingerprint }) <= 1
             /\ RowsWith(run[s].fingerprint) # {}
                => /\ conversations' = conversations
                   /\ alert'[s] = "IntegrityError"
                   /\ run'[s].pc = "idle" ]_vars

\* Both sessions passed the duplicate check (neither was shown the warning,
\* neither pressed Override); one stored the conversation, the other's insert
\* raised.
C18_Witness ==
    \E s \in Sessions : \E t \in Sessions :
        /\ s # t
        /\ alert[s] = "IntegrityError"
        /\ ~session[s].show_override_warning
        /\ \E c \in conversations :
              /\ session[t].current_conversation_id = Some(c.id)
              /\ c.fingerprint = Val(session[s].uploaded_fingerprint)

\* C19 (as claimed): while another session is deleting a conversation whose
\* row and turn rows are all in the table, the load_conversation_turns of a
\* view returns all its turns or none, never some of them.
C19_ViewIsAllOrNothing ==
    [][ \A s \in Sessions :
          (run[s].pc = "view_load" /\ run'[s].pc = "view_touch")
          => \A c \in conversations :
                ( /\ c.id = run[s].conv_id
                  /\ FullyStored(c)
                  /\ \E d \in Sessions \ {s} :
                        /\ run[d].pc \in {"delete", "rmtree", "delete_rows"}
                        /\ run[d].conv_id = c.id )
                => Len(run'[s].turns) \in {0, c.turns} ]_vars

\* No script run is in flight
AllIdle == \A s \in Sessions : run[s].pc = "idle"

\* C21 (as claimed): when no script run is in flight and no write has failed,
\* every directory under STORAGE_DIR is the storage_path of a conversation row.
C21_NoOrphanDirectories ==
    (AllIdle /\ faults = 0)
    => \A d \in dirs : \E c \in conversations : c.storage_path = d

\* The bytes of the upload a stored conversation was made from
BytesOf(c) == files[OriginalPath(c.id, c.format)]

\* Whether the turn list shown is the turn list of conversation conv_id: as
\* many turns as it has turn rows, each with the number, speaker and text of
\* a row and with the audio cut from that conversation's upload
TurnsBelongTo(shown, conv_id) ==
    \E c \in conversations :
        /\ c.id = conv_id
        /\ Len(shown) = Cardinality(TurnRowsOf(conv_id))
        /\ \A k \in 1..Len(shown) : \E t \in TurnRowsOf(conv_id) :
              /\ t.number = shown[k].number
              /\ t.speaker = shown[k].speaker
              /\ t.text = shown[k].text
              /\ b64decode(shown[k].audio_b64) =
                    ExportSegment(BytesOf(c), t.start_ms, t.end_ms, c.format)

\* C22 (as claimed): when no run is in flight and no write has failed, a
\* session whose current_turns is non-empty and whose current_conversation_id
\* is set holds in current_turns the turns of that conversation.
C22_ShownTurnsMatchId ==
    \A s \in Sessions :
        ( /\ AllIdle
          /\ faults = 0
          /\ session[s].current_turns # None
          /\ session[s].current_turns # Some(<< >>)
          /\ session[s].current_conversation_id # None )
        => TurnsBelongTo(Val(session[s].current_turns),
                         Val(session[s].current_conversation_id))

\* The fields of a turn the page shows and load_conversation_turns returns
Shown(turn) ==
    [ number |-> turn.number, speaker |-> turn.speaker, text |-> turn.text,
      start |-> turn.start, end |-> turn.end, audio_b64 |-> turn.audio_b64 ]

\* C23 (as claimed): when a processing run ends with its last save_turn and no
\* write has failed, the turns it stores in the session have the number,
\* speaker, text, start, end and audio of the turns load_conversation_turns
\* then returns for the conversation.
C23_ShownEqualsReloaded ==
    [][ \A s \in Sessions :
          (run[s].pc = "save_turn" /\ run'[s].pc = "idle" /\ faults' = 0)
          => [ k \in 1..Len(Val(session'[s].current_turns)) |->
                  Shown(Val(session'[s].current_turns)[k]) ]
             = load_conversation_turns(Val(session[s].current_conversation_id))' ]_vars

\* C24: a run whose process_audio call ends either stops there, having written
\* nothing, or goes on to persist a list of at least one turn; every
\* conversation row has turns >= 1 and at least one surviving utterance behind
\* it, and every directory written is written for such a list.
C24_PersistsOnlyWithTurns ==
    [][ /\ \A s \in Sessions :
              run[s].pc = "transcribe"
              => /\ UNCHANGED <<conversations, turns, dirs, files>>
                 /\ \/ run'[s].pc = "idle" /\ UNCHANGED uuid_count
                    \/ run'[s].pc = "save_audio_files" /\ Len(run'[s].turns) >= 1
        /\ \A s \in Sessions :
              run[s].pc \in {"save_audio_files", "save_conversation"}
              => Len(run[s].turns) >= 1
        /\ \A c \in conversations' : c.turns >= 1 ]_vars

\* A conversation is stored with one turn, the second of two utterances, the
\* first having been discarded; and nothing but that was written.
C24_Witness ==
    /\ AllIdle
    /\ \E c \in conversations :
          /\ c.turns = 1
          /\ \E t \in TurnRowsOf(c.id) : t.number = 2
          /\ Cardinality(TurnRowsOf(c.id)) = 1
    /\ Cardinality(conversations) = 1
    /\ Cardinality(dirs) = 1

====
